---- MODULE Spec2Model ----
(***************************************************************************)
(* Model of train_darcy.py: main() splits the dataset, builds the two      *)
(* loaders, initialises the parameters and the AdamW state, and then runs  *)
(* the epoch loop (training image, training pass, validation pass,         *)
(* val_loss, validation image).                                            *)
(*                                                                         *)
(* Numeric values are kept symbolic.  The parameters are the sequence of   *)
(* batches they were updated with (the initial parameters are <<>>), a     *)
(* loss value is the pair <<params, batch>> it was computed from, and the  *)
(* quotient lossval/val_steps is the pair <<lossval, val_steps>>.          *)
(***************************************************************************)
EXTENDS Integers, Sequences, FiniteSets, TLC

\* Bounds of the explored configurations.
MaxN == 3
MaxBatch == 2
MaxEpochs == 2

VARIABLES
  dataset_len,    \* len(dataset)
  SETTINGS,       \* n_train, n_test, batch_size, n_epochs
  pc,             \* position of main()
  failed_at,      \* "" or the expression that raised
  train_dataset,  \* Subset.indices of the training subset
  test_dataset,   \* Subset.indices of the evaluation subset
  model_params,
  opt_state,
  step,
  epoch,
  train_iter,     \* batches the training loader has still to yield
  test_iter,      \* batches the evaluation loader has still to yield
  lossval,        \* <<>> while unbound
  avg_loss,       \* the summands loss * len(x), in order
  val_steps,
  trace           \* updates, evaluations, counter advances and sink calls, in order

vars == <<dataset_len, SETTINGS, pc, failed_at, train_dataset, test_dataset,
          model_params, opt_state, step, epoch, train_iter, test_iter,
          lossval, avg_loss, val_steps, trace>>

----------------------------------------------------------------------------
\* Library operations the script calls.

\* torch.randperm(n): every permutation of 1..n.
Perms(n) == {p \in [1..n -> 1..n] : \A i, j \in 1..n : i # j => p[i] # p[j]}

\* Sizes random_split works with: the requested ones, or, where the build
\* reads sizes that sum to 1 as fractions, floor(N * fraction) of each.
ResolvedLengths(N, lengths) ==
  IF lengths[1] + lengths[2] = 1
  THEN {lengths, <<N * lengths[1], N * lengths[2]>>}
  ELSE {lengths}

\* random_split(dataset, lengths): ValueError unless the sizes sum to N,
\* otherwise consecutive slices of one random permutation.
RandomSplitMutOverlap(N, lengths) ==
  { IF r[1] + r[2] # N
    THEN [ok |-> FALSE, train |-> <<>>, test |-> <<>>]
    ELSE [ok |-> TRUE,
          train |-> SubSeq(p, 1, r[1]),
          test  |-> SubSeq(p, 1, r[2])]
    : r \in ResolvedLengths(N, lengths), p \in Perms(N) }

RandomSplitMutTruncate(N, lengths) ==
  { IF r[1] + r[2] < N
    THEN [ok |-> FALSE, train |-> <<>>, test |-> <<>>]
    ELSE [ok |-> TRUE,
          train |-> SubSeq(p, 1, IF r[1] < N THEN r[1] ELSE N),
          test  |-> SubSeq(p, (IF r[1] < N THEN r[1] ELSE N) + 1,
                           IF r[1] + r[2] < N THEN r[1] + r[2] ELSE N)]
    : r \in ResolvedLengths(N, lengths), p \in Perms(N) }

RandomSplit(N, lengths) ==
  { IF r[1] + r[2] # N
    THEN [ok |-> FALSE, train |-> <<>>, test |-> <<>>]
    ELSE [ok |-> TRUE,
          train |-> SubSeq(p, 1, r[1]),
          test  |-> SubSeq(p, r[1] + 1, r[1] + r[2])]
    : r \in ResolvedLengths(N, lengths), p \in Perms(N) }

\* BatchSampler: consecutive groups of B, the short last group dropped or kept.
RECURSIVE Chunks(_, _, _)
Chunks(s, B, drop_last) ==
  IF Len(s) = 0 THEN <<>>
  ELSE IF Len(s) < B THEN (IF drop_last THEN <<>> ELSE <<s>>)
  ELSE <<SubSeq(s, 1, B)>> \o Chunks(SubSeq(s, B + 1, Len(s)), B, drop_last)

\* RandomSampler (shuffle) or SequentialSampler.
SamplerOrders(ds, shuffle) ==
  IF shuffle
  THEN {[i \in 1..Len(ds) |-> ds[p[i]]] : p \in Perms(Len(ds))}
  ELSE {ds}

DataLoaderIter(ds, B, shuffle, drop_last) ==
  {Chunks(o, B, drop_last) : o \in SamplerOrders(ds, shuffle)}

\* train_loader: shuffle=True, drop_last=True.
TrainLoaderIterMutKeepLast(ds, B) == DataLoaderIter(ds, B, TRUE, FALSE)

TrainLoaderIter(ds, B) == DataLoaderIter(ds, B, TRUE, TRUE)

\* test_loader: shuffle=False, drop_last left at False.
TestLoaderIterMutShuffle(ds, B) == DataLoaderIter(ds, B, TRUE, FALSE)

TestLoaderIter(ds, B) == DataLoaderIter(ds, B, FALSE, FALSE)

----------------------------------------------------------------------------
\* Functions main() defines.

\* loss_fn(params, x, y): a value fixed by the parameters and the batch.
loss_fn(params, batch) == <<params, batch>>

\* optimizer.init(model_params): zero moments, count 0.
OptimizerInit(params) == [count |-> 0, grads |-> <<>>]

\* optimizer.update(grads, opt_state, params): moments absorb the gradient,
\* count advances by one.
OptimizerUpdateMutNoCount(state, params, batch) ==
  [count |-> state.count, grads |-> Append(state.grads, loss_fn(params, batch))]

OptimizerUpdate(state, params, batch) ==
  [count |-> state.count + 1, grads |-> Append(state.grads, loss_fn(params, batch))]

\* apply_updates(params, updates).
ApplyUpdates(params, batch) == Append(params, batch)

\* update(params, opt_state, x, y) -> (params, opt_state, lossval).
update(params, state, batch) ==
  [params    |-> ApplyUpdates(params, batch),
   opt_state |-> OptimizerUpdate(state, params, batch),
   lossval   |-> loss_fn(params, batch)]

\* range(SETTINGS.n_epochs) has another element after `done` iterations.
EpochRangeHasNextMutExtra(done, n_epochs) == done <= n_epochs

EpochRangeHasNext(done, n_epochs) == done < n_epochs

\* wandb.log({"loss": lossval}, step=step)
LossLogStepMutAfter(s) == s + 1

LossLogStep(s) == s

\* step += 1
StepAdvanceMutReset(s) == 0

StepAdvance(s) == s + 1

\* wandb.log({"val_loss": lossval/val_steps}, step=step)
ValLossValueMutWeighted(lv, avg, n) == <<avg, n>>

ValLossValue(lv, avg, n) == <<lv, n>>

\* step argument of the two log_wandb_image calls
ImageStepMutNext(s) == s + 1

ImageStep(s) == s

Event(ev, key, value, s) ==
  [ev |-> ev, key |-> key, value |-> value, step |-> s, epoch |-> epoch]

----------------------------------------------------------------------------
Init ==
  /\ dataset_len \in 1..MaxN
  /\ SETTINGS \in [n_train : 0..MaxN, n_test : 0..MaxN,
                   batch_size : 1..MaxBatch, n_epochs : 0..MaxEpochs]
  /\ pc = "split"
  /\ failed_at = ""
  /\ train_dataset = <<>>
  /\ test_dataset = <<>>
  /\ model_params = <<>>
  /\ opt_state = OptimizerInit(<<>>)
  /\ step = 0
  /\ epoch = 0
  /\ train_iter = <<>>
  /\ test_iter = <<>>
  /\ lossval = <<>>
  /\ avg_loss = <<>>
  /\ val_steps = 0
  /\ trace = <<>>

\* lines 32-36
SplitDataset ==
  /\ pc = "split"
  /\ \E r \in RandomSplit(dataset_len, <<SETTINGS.n_train, SETTINGS.n_test>>) :
       IF r.ok
       THEN /\ train_dataset' = r.train
            /\ test_dataset' = r.test
            /\ pc' = "init"
            /\ UNCHANGED failed_at
       ELSE /\ pc' = "error"
            /\ failed_at' = "random_split"
            /\ UNCHANGED <<train_dataset, test_dataset>>
  /\ UNCHANGED <<dataset_len, SETTINGS, model_params, opt_state, step, epoch,
                 train_iter, test_iter, lossval, avg_loss, val_steps, trace>>

\* lines 38-91: loaders, model and optimizer initialisation, step = 0.
\* An empty training subset is refused: the shuffling loader rejects it or,
\* failing that, train_dataset[0] has no element to take the input shape from.
InitModel ==
  /\ pc = "init"
  /\ IF Len(train_dataset) = 0
     THEN /\ pc' = "error"
          /\ failed_at' = "train_dataset[0]"
          /\ UNCHANGED <<model_params, opt_state, step>>
     ELSE /\ model_params' = <<>>
          /\ opt_state' = OptimizerInit(<<>>)
          /\ step' = 0
          /\ pc' = "epoch_head"
          /\ UNCHANGED failed_at
  /\ UNCHANGED <<dataset_len, SETTINGS, train_dataset, test_dataset, epoch,
                 train_iter, test_iter, lossval, avg_loss, val_steps, trace>>

\* line 92, range not exhausted
EpochBegin ==
  /\ pc = "epoch_head"
  /\ EpochRangeHasNext(epoch, SETTINGS.n_epochs)
  /\ pc' = "train_image"
  /\ UNCHANGED <<dataset_len, SETTINGS, failed_at, train_dataset, test_dataset,
                 model_params, opt_state, step, epoch, train_iter, test_iter,
                 lossval, avg_loss, val_steps, trace>>

\* line 92, range exhausted: main() returns
Finish ==
  /\ pc = "epoch_head"
  /\ ~EpochRangeHasNext(epoch, SETTINGS.n_epochs)
  /\ pc' = "done"
  /\ UNCHANGED <<dataset_len, SETTINGS, failed_at, train_dataset, test_dataset,
                 model_params, opt_state, step, epoch, train_iter, test_iter,
                 lossval, avg_loss, val_steps, trace>>

\* lines 95-99
LogTrainingImage ==
  /\ pc = "train_image"
  /\ trace' = Append(trace, Event("image", "Training image",
                                  <<train_dataset[1], model_params>>, ImageStep(step)))
  /\ pc' = "train_start"
  /\ UNCHANGED <<dataset_len, SETTINGS, failed_at, train_dataset, test_dataset,
                 model_params, opt_state, step, epoch, train_iter, test_iter,
                 lossval, avg_loss, val_steps>>

\* lines 102-103: iter(train_loader) draws a fresh order
StartTrainingPass ==
  /\ pc = "train_start"
  /\ train_iter' \in TrainLoaderIter(train_dataset, SETTINGS.batch_size)
  /\ pc' = "train_next"
  /\ UNCHANGED <<dataset_len, SETTINGS, failed_at, train_dataset, test_dataset,
                 model_params, opt_state, step, epoch, test_iter,
                 lossval, avg_loss, val_steps, trace>>

\* lines 103-110
UpdateStep ==
  /\ pc = "train_next"
  /\ train_iter # <<>>
  /\ LET r == update(model_params, opt_state, Head(train_iter)) IN
       /\ model_params' = r.params
       /\ opt_state' = r.opt_state
       /\ lossval' = r.lossval
  /\ train_iter' = Tail(train_iter)
  /\ trace' = Append(trace, Event("update", "", Head(train_iter), step))
  /\ pc' = "log_loss"
  /\ UNCHANGED <<dataset_len, SETTINGS, failed_at, train_dataset, test_dataset,
                 step, epoch, test_iter, avg_loss, val_steps>>

\* lines 112-114
LogLoss ==
  /\ pc = "log_loss"
  /\ trace' = Append(trace, Event("scalar", "loss", lossval, LossLogStep(step)))
  /\ pc' = "step_inc"
  /\ UNCHANGED <<dataset_len, SETTINGS, failed_at, train_dataset, test_dataset,
                 model_params, opt_state, step, epoch, train_iter, test_iter,
                 lossval, avg_loss, val_steps>>

\* line 115
AdvanceStep ==
  /\ pc = "step_inc"
  /\ step' = StepAdvance(step)
  /\ trace' = Append(trace, Event("step", "", <<>>, StepAdvance(step)))
  /\ pc' = "train_next"
  /\ UNCHANGED <<dataset_len, SETTINGS, failed_at, train_dataset, test_dataset,
                 model_params, opt_state, epoch, train_iter, test_iter,
                 lossval, avg_loss, val_steps>>

\* line 103 exhausted, lines 117-121: avg_loss = 0, val_steps = 0, iter(test_loader)
StartValidationPass ==
  /\ pc = "train_next"
  /\ train_iter = <<>>
  /\ avg_loss' = <<>>
  /\ val_steps' = 0
  /\ test_iter' \in TestLoaderIter(test_dataset, SETTINGS.batch_size)
  /\ pc' = "val_next"
  /\ UNCHANGED <<dataset_len, SETTINGS, failed_at, train_dataset, test_dataset,
                 model_params, opt_state, step, epoch, train_iter, lossval, trace>>

\* lines 121-128
ValidationBatch ==
  /\ pc = "val_next"
  /\ test_iter # <<>>
  /\ lossval' = loss_fn(model_params, Head(test_iter))
  /\ avg_loss' = Append(avg_loss, <<loss_fn(model_params, Head(test_iter)),
                                    Len(Head(test_iter))>>)
  /\ val_steps' = val_steps + 1
  /\ test_iter' = Tail(test_iter)
  /\ trace' = Append(trace, Event("eval", "", loss_fn(model_params, Head(test_iter)), step))
  /\ UNCHANGED <<dataset_len, SETTINGS, pc, failed_at, train_dataset, test_dataset,
                 model_params, opt_state, step, epoch, train_iter>>

\* line 121 exhausted, line 130.  lossval is unbound when neither loop has
\* run a batch yet; with val_steps = 0 the quotient is inf or nan, not an error.
LogValLoss ==
  /\ pc = "val_next"
  /\ test_iter = <<>>
  /\ IF lossval = <<>>
     THEN /\ pc' = "error"
          /\ failed_at' = "lossval"
          /\ UNCHANGED trace
     ELSE /\ trace' = Append(trace, Event("scalar", "val_loss",
                                ValLossValue(lossval, avg_loss, val_steps), step))
          /\ pc' = "val_image"
          /\ UNCHANGED failed_at
  /\ UNCHANGED <<dataset_len, SETTINGS, train_dataset, test_dataset,
                 model_params, opt_state, step, epoch, train_iter, test_iter,
                 lossval, avg_loss, val_steps>>

\* lines 132-136, then back to line 92
LogValidationImage ==
  /\ pc = "val_image"
  /\ IF Len(test_dataset) = 0
     THEN /\ pc' = "error"
          /\ failed_at' = "test_dataset[0]"
          /\ UNCHANGED <<trace, epoch>>
     ELSE /\ trace' = Append(trace, Event("image", "Validation image",
                                <<test_dataset[1], model_params>>, ImageStep(step)))
          /\ epoch' = epoch + 1
          /\ pc' = "epoch_head"
          /\ UNCHANGED failed_at
  /\ UNCHANGED <<dataset_len, SETTINGS, train_dataset, test_dataset,
                 model_params, opt_state, step, train_iter, test_iter,
                 lossval, avg_loss, val_steps>>

Next ==
  \/ SplitDataset
  \/ InitModel
  \/ EpochBegin
  \/ Finish
  \/ LogTrainingImage
  \/ StartTrainingPass
  \/ UpdateStep
  \/ LogLoss
  \/ AdvanceStep
  \/ StartValidationPass
  \/ ValidationBatch
  \/ LogValLoss
  \/ LogValidationImage

Spec == Init /\ [][Next]_vars

\* main() is one thread that always runs its next statement.
FairSpec == Spec /\ WF_vars(Next)

----------------------------------------------------------------------------
\* Reading the trace.

IsEv(r, ev, key) == r.ev = ev /\ r.key = key

\* Indices of the events of one kind in epoch e.
EventsIn(ev, key, e) ==
  {i \in DOMAIN trace : IsEv(trace[i], ev, key) /\ trace[i].epoch = e}

CountIn(ev, key, e) == Cardinality(EventsIn(ev, key, e))

ValuesOf(s) == [k \in 1..Len(s) |-> s[k].value]

\* Batches of the Update Steps among the first n events, in order.
UpdateBatchesIn(n) ==
  ValuesOf(SelectSeq(SubSeq(trace, 1, n), LAMBDA r : r.ev = "update"))

\* Batches of the Update Steps of the epochs up to e (e = -1: none).
UpdateBatchesThrough(e) ==
  ValuesOf(SelectSeq(trace, LAMBDA r : r.ev = "update" /\ r.epoch <= e))

UpdatesDone == Len(UpdateBatchesIn(Len(trace)))

\* Losses of the validation batches of epoch e, in order.
EvalLosses(e) ==
  ValuesOf(SelectSeq(trace, LAMBDA r : r.ev = "eval" /\ r.epoch = e))

\* The value reported under "val_loss" in epoch e.
ValLossOf(e) ==
  ValuesOf(SelectSeq(trace, LAMBDA r : IsEv(r, "scalar", "val_loss") /\ r.epoch = e))

FloorDiv(a, b) == a \div b
CeilDiv(a, b) == (a + b - 1) \div b

SumRequested == SETTINGS.n_train + SETTINGS.n_test

Range(s) == {s[i] : i \in DOMAIN s}

\* Between two batches of the training loop, or outside it.
BetweenBatches == pc \notin {"log_loss", "step_inc"}

----------------------------------------------------------------------------
\* C1: every epoch that runs to its end has performed exactly
\* floor(n_train / B) Update Steps and ceil(n_eval / B) validation loss
\* evaluations, and has reported one "loss" per Update Step and one "val_loss".
C1_EpochCounts ==
  \A e \in 0..(epoch - 1) :
    /\ CountIn("update", "", e) = FloorDiv(SETTINGS.n_train, SETTINGS.batch_size)
    /\ CountIn("eval", "", e) = CeilDiv(SETTINGS.n_test, SETTINGS.batch_size)
    /\ CountIn("scalar", "loss", e) = CountIn("update", "", e)
    /\ CountIn("scalar", "val_loss", e) = 1

\* Two whole epochs, each with one full training batch and a short
\* validation batch that is kept.
C1_Witness ==
  /\ pc = "done"
  /\ epoch = 2
  /\ SETTINGS.n_train = 2 /\ SETTINGS.n_test = 1 /\ SETTINGS.batch_size = 2
  /\ CountIn("update", "", 1) = 1
  /\ CountIn("eval", "", 1) = 1

----------------------------------------------------------------------------
C2_Inv ==
  /\ BetweenBatches => step = UpdatesDone
  /\ ~BetweenBatches => step = UpdatesDone - 1
  /\ pc = "epoch_head" =>
       step = epoch * FloorDiv(SETTINGS.n_train, SETTINGS.batch_size)
  /\ \A i, j \in DOMAIN trace :
       (i < j /\ trace[i].ev = "scalar" /\ trace[j].ev = "scalar")
         => trace[i].step <= trace[j].step

C2_Step ==
  /\ step' >= step
  /\ step' # step => (step' = step + 1 /\ pc = "step_inc")
  /\ (Len(trace') = Len(trace) + 1 /\ trace'[Len(trace')].ev = "scalar")
       => trace'[Len(trace')].step = step

\* C2: the Step Counter starts at 0, grows by exactly 1 per Update Step, never
\* decreases and is not reset between epochs (e * floor(n_train / B) after e
\* epochs); every scalar report is keyed by the counter's value at that
\* moment, so the keys the sink receives never decrease.
C2_StepCounter == [] C2_Inv /\ [][C2_Step]_vars

C2_Witness ==
  /\ pc = "epoch_head"
  /\ epoch = 2
  /\ step = 4
  /\ \E i \in DOMAIN trace : IsEv(trace[i], "scalar", "val_loss") /\ trace[i].step = 4

----------------------------------------------------------------------------
\* Epochs e1 < e2 whose validation passes saw the same Parameters.
SameParams(e1, e2) == UpdateBatchesThrough(e1) = UpdateBatchesThrough(e2)

C3_Idempotent ==
  \A e1, e2 \in 0..(epoch - 1) :
    (e1 < e2 /\ SameParams(e1, e2))
      => /\ EvalLosses(e1) = EvalLosses(e2)
         /\ ValLossOf(e1) = ValLossOf(e2)

C3_Frame ==
  pc \in {"val_next", "val_image"}
    => /\ model_params' = model_params
       /\ opt_state' = opt_state
       /\ step' = step

\* C3: the validation pass, from its first batch to its "val_loss" report,
\* leaves Parameters, Optimizer State and Step Counter as they are, and two
\* validation passes over unchanged Parameters give the same batch losses in
\* the same order and the same reported value.
C3_ValidationOnlyEvaluates == [][C3_Frame /\ C3_Idempotent']_vars

\* Two epochs with no training batch in between, each evaluating a batch.
C3_Witness ==
  /\ epoch = 2
  /\ UpdatesDone = 0
  /\ Len(EvalLosses(0)) >= 1
  /\ EvalLosses(0) = EvalLosses(1)

----------------------------------------------------------------------------
C4_Inv ==
  /\ opt_state.count = UpdatesDone
  /\ Len(opt_state.grads) = UpdatesDone
  /\ model_params = UpdateBatchesIn(Len(trace))
  /\ BetweenBatches => opt_state.count = step

C4_Step ==
  /\ (model_params' # model_params) <=> (opt_state' # opt_state)
  /\ model_params' # model_params =>
       /\ pc = "train_next" /\ pc' = "log_loss"
       /\ opt_state'.count = opt_state.count + 1

\* C4: Parameters and Optimizer State are replaced together, by the Update
\* Step and by nothing else; after K Update Steps the optimizer's count is K,
\* which is the Step Counter's value between batches.
C4_LockStep == [] C4_Inv /\ [][C4_Step]_vars

C4_Witness ==
  /\ pc = "val_next"
  /\ opt_state.count = 3
  /\ step = 3
  /\ Len(model_params) = 3

----------------------------------------------------------------------------
SplitAsRequested ==
  /\ failed_at # "random_split"
  /\ Len(train_dataset) = SETTINGS.n_train
  /\ Len(test_dataset) = SETTINGS.n_test
  /\ Cardinality(Range(train_dataset)) = SETTINGS.n_train
  /\ Cardinality(Range(test_dataset)) = SETTINGS.n_test
  /\ Range(train_dataset) \cap Range(test_dataset) = {}
  /\ Range(train_dataset) \cup Range(test_dataset) \subseteq 1..dataset_len

----------------------------------------------------------------------------
\* Place of an event in the cycle of its epoch.
Phase(r) ==
  IF IsEv(r, "image", "Training image") THEN 1
  ELSE IF r.ev \in {"update", "step"} \/ IsEv(r, "scalar", "loss") THEN 2
  ELSE IF r.ev = "eval" THEN 3
  ELSE IF IsEv(r, "scalar", "val_loss") THEN 4
  ELSE 5

C6_Order ==
  \A i, j \in DOMAIN trace :
    i < j => \/ trace[i].epoch < trace[j].epoch
             \/ /\ trace[i].epoch = trace[j].epoch
                /\ Phase(trace[i]) <= Phase(trace[j])

C6_Cycles ==
  pc = "done" =>
    /\ epoch = SETTINGS.n_epochs
    /\ \A r \in Range(trace) : r.epoch < SETTINGS.n_epochs
    /\ \A e \in 0..(SETTINGS.n_epochs - 1) :
         /\ CountIn("image", "Training image", e) = 1
         /\ CountIn("scalar", "val_loss", e) = 1
         /\ CountIn("image", "Validation image", e) = 1

\* Both subsets non-empty and the sizes add up to the dataset.
UsableSplit ==
  /\ SETTINGS.n_train >= 1
  /\ SETTINGS.n_test >= 1
  /\ SumRequested = dataset_len

\* C6 as stated: a run that has entered the epoch loop stops only in Done,
\* after exactly n_epochs cycles.
C6_AsStated ==
  (pc \in {"done", "error"} /\ failed_at \notin {"random_split", "train_dataset[0]"})
    => (pc = "done" /\ epoch = SETTINGS.n_epochs)

\* C6: in every epoch the training pass ends before the validation pass
\* starts and the validation pass ends before the next epoch starts; Done is
\* reached only after exactly n_epochs cycles and nothing happens after it;
\* every run stops, and it stops in Done when both subsets are non-empty and
\* n_train + n_eval = N.
C6_EpochMachine ==
  /\ [] (C6_Order /\ C6_Cycles)
  /\ [][pc # "done"]_vars
  /\ <>(pc \in {"done", "error"})
  /\ UsableSplit => <>(pc = "done")

C6_Witness ==
  /\ pc = "done"
  /\ SETTINGS.n_epochs = 2
  /\ UsableSplit
  /\ CountIn("image", "Validation image", 1) = 1
  /\ CountIn("update", "", 0) = 2

----------------------------------------------------------------------------
\* C7: with n_train + n_eval > N the run fails in random_split, before the
\* model and the optimizer are initialised, before any Update Step and
\* before anything reaches the sink.
C7_OversizedSplitFailsFirst ==
  SumRequested > dataset_len =>
    /\ pc \in {"split", "error"}
    /\ pc = "error" => failed_at = "random_split"
    /\ trace = <<>>
    /\ opt_state.count = 0
    /\ model_params = <<>>

C7_Witness ==
  /\ SumRequested > dataset_len
  /\ pc = "error"
  /\ failed_at = "random_split"

----------------------------------------------------------------------------
LossReports == {i \in DOMAIN trace : IsEv(trace[i], "scalar", "loss")}

\* C8 as stated: update, then the counter advances, then the loss is
\* reported under the advanced counter.
C8_AsStated ==
  \A i \in LossReports :
    /\ i > 2
    /\ trace[i - 2].ev = "update"
    /\ trace[i - 1].ev = "step"
    /\ trace[i].step = Len(UpdateBatchesIn(i))

\* C8: for every training batch the order is update, report of that update's
\* loss under "loss", advance of the counter; the report is keyed by the
\* counter's value before the advance, so the k-th update is reported at k-1.
C8_UpdateReportAdvance ==
  /\ \A i \in LossReports :
       /\ i > 1
       /\ trace[i - 1].ev = "update"
       /\ trace[i].epoch = trace[i - 1].epoch
       /\ trace[i].value = loss_fn(UpdateBatchesIn(i - 2), trace[i - 1].value)
       /\ trace[i].step = Len(UpdateBatchesIn(i)) - 1
       /\ i < Len(trace) =>
            /\ trace[i + 1].ev = "step"
            /\ trace[i + 1].step = trace[i].step + 1
  /\ \A i \in DOMAIN trace :
       (trace[i].ev = "update" /\ i < Len(trace)) => (i + 1) \in LossReports

C8_Witness ==
  \E i \in LossReports :
    /\ i < Len(trace)
    /\ trace[i].step = 1
    /\ trace[i + 1].step = 2

----------------------------------------------------------------------------
ValLossReports == {i \in DOMAIN trace : IsEv(trace[i], "scalar", "val_loss")}

\* C9: in every epoch that evaluates a validation batch, the value reported
\* under "val_loss" is the loss of the last validation batch of that epoch
\* over the number of validation batches of that epoch; the weighted sum
\* avg_loss is not part of it.
C9_LastBatchOverSteps ==
  \A i \in ValLossReports :
    LET losses == EvalLosses(trace[i].epoch) IN
      Len(losses) >= 1 =>
        /\ trace[i - 1].ev = "eval"
        /\ trace[i].value = <<losses[Len(losses)], Len(losses)>>

\* A report after two validation batches with different losses.
C9_Witness ==
  \E i \in ValLossReports :
    LET losses == EvalLosses(trace[i].epoch) IN
      /\ Len(losses) = 2
      /\ losses[1] # losses[2]
      /\ trace[i].value[2] = 2

----------------------------------------------------------------------------
\* The only element of a one-element set of indices.
TheOne(S) == CHOOSE i \in S : TRUE

\* C10: every epoch that runs to its end holds exactly one "Training image",
\* reported before the epoch's first Update Step with the prediction of the
\* pre-epoch Parameters and the Step Counter of the epoch's start, and exactly
\* one "Validation image", reported after the epoch's "val_loss" with the
\* prediction of the post-epoch Parameters and the Step Counter of its end.
C10_Images ==
  /\ \A e \in 0..(epoch - 1) :
       /\ CountIn("image", "Training image", e) = 1
       /\ CountIn("image", "Validation image", e) = 1
       /\ LET t == TheOne(EventsIn("image", "Training image", e))
              v == TheOne(EventsIn("image", "Validation image", e))
          IN /\ \A u \in EventsIn("update", "", e) : t < u
             /\ trace[t].value = <<train_dataset[1], UpdateBatchesThrough(e - 1)>>
             /\ trace[t].step = Len(UpdateBatchesThrough(e - 1))
             /\ \A l \in EventsIn("scalar", "val_loss", e) : l < v
             /\ trace[v].value = <<test_dataset[1], UpdateBatchesThrough(e)>>
             /\ trace[v].step = Len(UpdateBatchesThrough(e))
  /\ \A u \in DOMAIN trace :
       trace[u].ev = "update" =>
         \E t \in EventsIn("image", "Training image", trace[u].epoch) : t < u

\* The second epoch's images, taken before and after two updates.
C10_Witness ==
  /\ epoch = 2
  /\ \E t \in EventsIn("image", "Training image", 1) :
       trace[t].step = 2 /\ Len(trace[t].value[2]) = 2
  /\ \E v \in EventsIn("image", "Validation image", 1) :
       trace[v].step = 4 /\ Len(trace[v].value[2]) = 4

====
